---- MODULE Spec2Model ----
(***************************************************************************)
(* Model of the conversation core of mkloubert/gai: the persisted          *)
(* conversation repository (.conversations.yaml), the in-memory            *)
(* ChatContext of a process, and the Chat operation of the two provider    *)
(* clients (OpenAIClient = Backend A, OllamaClient = Backend B).           *)
(*                                                                         *)
(* Go strings are modelled as sequences of tokens (<<>> is the empty       *)
(* string), so that trimming, slugification, prefix/suffix tests and the   *)
(* data-URI split are computed and not assumed.  The model and time        *)
(* fields of a turn are left out: no operation modelled here reads them.   *)
(* The nested map directory -> context -> conversation is modelled as one  *)
(* map over (directory, context) keys; ensureConversation always creates   *)
(* both levels together.                                                   *)
(***************************************************************************)
EXTENDS Integers, Sequences, FiniteSets, TLC

VARIABLES
    file,        \* content of the persisted conversation file
    mem,         \* mem[p]: ChatContext.Conversations of process p
    cur,         \* cur[p]: ChatContext.currentContext of process p
    cwd,         \* cwd[p]: AppContext.WorkingDirectory of process p
    flag,        \* flag[p]: AppContext.SystemPrompt of process p (--system flag)
    stage,       \* stage[p]: "start", "loaded" once p has loaded the file, "saved" while the
                 \* file p wrote last still holds what p has in memory
    err,         \* err[p]: the last store operation of p returned an error
    pc,          \* "idle", or "waiting" while the HTTP request of a Chat call is outstanding
    call,        \* local variables of the Chat call in progress
    last,        \* what the last completed Chat call returned and did
    outstanding, \* number of backend HTTP requests sent and not yet answered
    sw           \* record of the last SwitchContext calls of the session

vars == <<file, mem, cur, cwd, flag, stage, err, pc, call, last, outstanding, sw>>

----------------------------------------------------------------------------
(* Bounds *)

\* longest conversation of one context
MaxTurns == 4
\* number of turns held in memory over all contexts of a process
MaxTotal == 5
\* number of turns a process holds in memory when two processes run together
MaxRaceTurns == 3
\* number of turns the session holds in memory when it works on the file
MaxStoreTurns == 2
\* number of turns the session appends to a context before it chats in it
MaxOwnTurns == 1

----------------------------------------------------------------------------
(* Strings *)

\* the process of the session under observation, and a second command
\* invocation running at the same time
Procs == {"p1", "p2"}

Session == "p1"

\* working directories
Dirs == {"d1", "d2"}

HasPrefix(s, p) == Len(s) >= Len(p) /\ SubSeq(s, 1, Len(p)) = p

HasSuffix(s, p) == Len(s) >= Len(p) /\ SubSeq(s, Len(s) - Len(p) + 1, Len(s)) = p

RECURSIVE TrimLeft(_, _)
TrimLeft(s, cut) ==
    IF s # <<>> /\ Head(s) \in cut THEN TrimLeft(Tail(s), cut) ELSE s

RECURSIVE TrimRight(_, _)
TrimRight(s, cut) ==
    IF s # <<>> /\ s[Len(s)] \in cut THEN TrimRight(SubSeq(s, 1, Len(s) - 1), cut) ELSE s

TrimSpace(s) == TrimRight(TrimLeft(s, {" "}), {" "})

ToLowerTok(t) ==
    CASE t = "A" -> "a"
      [] t = "B" -> "b"
      [] OTHER -> t

ToLower(s) == [i \in 1..Len(s) |-> ToLowerTok(s[i])]

\* index of the first occurrence of token t in s, 0 when there is none
RECURSIVE IndexFrom(_, _, _)
IndexFrom(s, t, i) ==
    IF i > Len(s) THEN 0
    ELSE IF s[i] = t THEN i
    ELSE IndexFrom(s, t, i + 1)

Index(s, t) == IndexFrom(s, t, 1)

\* characters the slug keeps; every other character becomes a dash
SlugSafe == {"a", "b", "-", "_"}

RECURSIVE CollapseDashes(_)
CollapseDashes(s) ==
    IF Len(s) < 2 THEN s
    ELSE IF s[1] = "-" /\ s[2] = "-" THEN CollapseDashes(Tail(s))
    ELSE <<s[1]>> \o CollapseDashes(Tail(s))

MakeLang(c) ==
    LET trimmed == TrimSpace(c)
        lowered == ToLower(trimmed)
        dashed  == [i \in 1..Len(lowered) |->
                      IF lowered[i] \in SlugSafe THEN lowered[i] ELSE "-"]
    IN  TrimRight(TrimLeft(CollapseDashes(dashed), {"-", "_"}), {"-", "_"})

Slug(c) == TrimSpace(ToLower(MakeLang(c)))

\* context names a caller passes to SwitchContext
Names == {<<>>, <<"A">>, <<" ", "a", "!">>}

----------------------------------------------------------------------------
(* Conversation data model: src/types/conversation_repository.go *)

TextItem(s) == [type |-> "text", content |-> s]

Turn(role, contents) == [role |-> role, contents |-> contents]

TextTurn(role, s) == Turn(role, <<TextItem(s)>>)

EmptyRepo == [k \in {} |-> <<>>]

Put(repo, key, conversation) ==
    [k \in (DOMAIN repo) \cup {key} |-> IF k = key THEN conversation ELSE repo[k]]

\* a marshaller that never puts a scalar in quotes
YamlScalar_Plain(s) == [style |-> "plain", text |-> s]

\* a Go string as a YAML scalar, as yaml.Marshal writes it: in quotes when the
\* plain text would not be read back as the same string
YamlScalar(s) ==
    [style |-> IF \/ s = <<>>
                  \/ s \in {<<"null">>, <<"~">>}
                  \/ (s # <<>> /\ (Head(s) = " " \/ s[Len(s)] = " "))
               THEN "quoted" ELSE "plain",
     text |-> s]

\* the Go string the YAML decoder reads from a scalar: a plain scalar loses the
\* blanks around it, and the null scalars decode to the empty string
YamlString(y) ==
    IF y.style = "quoted" THEN y.text
    ELSE IF TrimSpace(y.text) \in {<<>>, <<"null">>, <<"~">>} THEN <<>>
    ELSE TrimSpace(y.text)

\* one turn as a node of the document: fields contents and role
YamlTurn(turn) ==
    [role |-> turn.role,
     contents |-> [i \in 1..Len(turn.contents) |->
                     [type |-> turn.contents[i].type,
                      content |-> YamlScalar(turn.contents[i].content)]]]

TurnOfYaml(node) ==
    Turn(node.role,
         [i \in 1..Len(node.contents) |->
            [type |-> node.contents[i].type,
             content |-> YamlString(node.contents[i].content)]])

\* yaml.Marshal of the repository: the document maps each directory to its
\* contexts, each context name to its conversation
Marshal(repo) ==
    [d \in {k[1] : k \in DOMAIN repo} |->
       [c \in {YamlScalar(k[2]) : k \in {x \in DOMAIN repo : x[1] = d}} |->
          LET k == CHOOSE x \in DOMAIN repo : x[1] = d /\ YamlScalar(x[2]) = c
          IN  [i \in 1..Len(repo[k]) |-> YamlTurn(repo[k][i])]]]

\* the repository the YAML decoder builds from a document
Unmarshal(doc) ==
    [k \in UNION {{<<d, YamlString(c)>> : c \in DOMAIN doc[d]} : d \in DOMAIN doc} |->
       LET c == CHOOSE x \in DOMAIN doc[k[1]] : YamlString(x) = k[2]
       IN  [i \in 1..Len(doc[k[1]][c]) |-> TurnOfYaml(doc[k[1]][c][i])]]

AbsentFile == [state |-> "absent", data |-> Marshal(EmptyRepo)]

MalformedFile == [state |-> "malformed", data |-> Marshal(EmptyRepo)]

FileOf(repo) == [state |-> "ok", data |-> Marshal(repo)]

Key(p) == <<cwd[p], cur[p]>>

TotalTurnsOver(repo, keys) ==
    LET RECURSIVE Sum(_)
        Sum(ks) == IF ks = {} THEN 0
                   ELSE LET k == CHOOSE x \in ks : TRUE
                        IN  Len(repo[k]) + Sum(ks \ {k})
    IN  Sum(keys)

TotalTurns(repo) == TotalTurnsOver(repo, DOMAIN repo)

----------------------------------------------------------------------------
(* ChatContext: src/unnamed/part_010, second file (lines 201-498) *)

\* an ensureConversation that starts the context afresh each time
ensureConversation_Fresh(repo, key) == Put(repo, key, <<>>)

\* the repository after ensureConversation for key
ensureConversation(repo, key) ==
    IF key \in DOMAIN repo THEN repo ELSE Put(repo, key, <<>>)

\* GetConversation: the turns of the current context, which it creates if missing
GetConversation(repo, key) == ensureConversation(repo, key)[key]

NoSwitch == [phase |-> 0, a |-> <<>>, b |-> <<>>, saved |-> <<>>]

NoCall == [adapter |-> "none"]

\* a process is between two operations
Ready(p) == stage[p] # "start" /\ (p = Session => pc = "idle")

\* what every operation other than Chat and SwitchContext leaves of the
\* observation records: a chain of switches goes on while the session works in
\* its first context, and ends when it works in a later one
Forget(p) ==
    /\ last' = IF p = Session THEN NoCall ELSE last
    /\ sw' = IF p = Session /\ sw.phase # 1 THEN NoSwitch ELSE sw

\* a load that takes a missing file for an error
ReloadAllConversations_AbsentFails(p) ==
    /\ stage[p] = "start"
    /\ IF file.state # "ok"
       THEN /\ err' = [err EXCEPT ![p] = TRUE]
            /\ UNCHANGED <<mem, stage>>
       ELSE /\ err' = [err EXCEPT ![p] = FALSE]
            /\ mem' = [mem EXCEPT ![p] = Unmarshal(file.data)]
            /\ stage' = [stage EXCEPT ![p] = "loaded"]
    /\ Forget(p)
    /\ UNCHANGED <<file, cur, cwd, flag, pc, call, outstanding>>

ReloadAllConversations(p) ==
    /\ stage[p] = "start"
    /\ IF file.state = "malformed"
       THEN /\ err' = [err EXCEPT ![p] = TRUE]
            /\ UNCHANGED <<mem, stage>>
       ELSE /\ err' = [err EXCEPT ![p] = FALSE]
            /\ mem' = [mem EXCEPT ![p] = Unmarshal(file.data)]
            /\ stage' = [stage EXCEPT ![p] = "loaded"]
    /\ Forget(p)
    /\ UNCHANGED <<file, cur, cwd, flag, pc, call, outstanding>>

\* the observation of a chain SwitchContext(a), SwitchContext(b), SwitchContext(a):
\* phase counts the calls of the chain made so far, saved is the turn sequence
\* context a held when the session left it for b.  restart makes this call the
\* first of a new chain.
SwitchRecord(name, restart) ==
    IF sw.phase = 1 /\ ~restart
    THEN [sw EXCEPT !.phase = 2, !.b = name, !.saved = mem[Session][Key(Session)]]
    ELSE IF sw.phase = 2 /\ ~restart /\ name = sw.a
    THEN [sw EXCEPT !.phase = 3]
    ELSE [phase |-> 1, a |-> name, b |-> <<>>, saved |-> <<>>]

\* a switch that also saves the repository
SwitchContext_Saving(p, name, restart) ==
    /\ Ready(p)
    /\ LET newContextName == Slug(name)
           repo == ensureConversation(mem[p], <<cwd[p], newContextName>>)
       IN  /\ cur' = [cur EXCEPT ![p] = newContextName]
           /\ mem' = [mem EXCEPT ![p] = repo]
           /\ file' = [state |-> "ok", data |-> Marshal(repo)]
           /\ sw' = IF p = Session THEN SwitchRecord(name, restart) ELSE sw
    /\ stage' = [stage EXCEPT ![p] = "loaded"]
    /\ last' = IF p = Session THEN NoCall ELSE last
    /\ UNCHANGED <<cwd, flag, err, pc, call, outstanding>>

SwitchContext(p, name, restart) ==
    /\ Ready(p)
    /\ LET newContextName == Slug(name)
           repo == ensureConversation(mem[p], <<cwd[p], newContextName>>)
       IN  /\ cur' = [cur EXCEPT ![p] = newContextName]
           /\ mem' = [mem EXCEPT ![p] = repo]
           /\ sw' = IF p = Session THEN SwitchRecord(name, restart) ELSE sw
    /\ stage' = [stage EXCEPT ![p] = "loaded"]
    /\ last' = IF p = Session THEN NoCall ELSE last
    /\ UNCHANGED <<file, cwd, flag, err, pc, call, outstanding>>

\* an append that puts the item in front of the turns
AppendConversationItem_Front(p, item) ==
    /\ Ready(p)
    /\ Len(GetConversation(mem[p], Key(p))) < MaxTurns
    /\ TotalTurns(mem[p]) < MaxTotal
    /\ LET repo == ensureConversation(mem[p], Key(p))
       IN  mem' = [mem EXCEPT ![p] = Put(repo, Key(p), <<item>> \o repo[Key(p)])]
    /\ stage' = [stage EXCEPT ![p] = "loaded"]
    /\ Forget(p)
    /\ UNCHANGED <<file, cur, cwd, flag, err, pc, call, outstanding>>

AppendConversationItem(p, item) ==
    /\ Ready(p)
    /\ Len(GetConversation(mem[p], Key(p))) < MaxTurns
    /\ TotalTurns(mem[p]) < MaxTotal
    /\ LET repo == ensureConversation(mem[p], Key(p))
       IN  mem' = [mem EXCEPT ![p] = Put(repo, Key(p), Append(repo[Key(p)], item))]
    /\ stage' = [stage EXCEPT ![p] = "loaded"]
    /\ Forget(p)
    /\ UNCHANGED <<file, cur, cwd, flag, err, pc, call, outstanding>>

\* the repository after one call of AppendConversationItem
WithItem(repo, key, item) ==
    LET ensured == ensureConversation(repo, key)
    IN  Put(ensured, key, Append(ensured[key], item))

PseudoMessages == {<<"hi">>}

\* the Answer option of AppendSimplePseudoUserConversation: the default or a given text
PseudoAnswers == {<<"OK">>, <<"yes">>}

\* AppendSimplePseudoUserConversation: both turns are appended with
\* AppendConversationItem, and the list of the new items is then appended to
\* the conversation of the same context object
AppendSimplePseudoUserConversation(p, um, answer) ==
    /\ Ready(p)
    /\ Len(GetConversation(mem[p], Key(p))) + 4 <= MaxTurns
    /\ TotalTurns(mem[p]) + 4 <= MaxTotal
    /\ LET userMessage == TextTurn("user", um)
           assistantMessage == TextTurn("assistant", answer)
           first == WithItem(ensureConversation(mem[p], Key(p)), Key(p), userMessage)
           second == WithItem(first, Key(p), assistantMessage)
           newItems == <<userMessage, assistantMessage>>
       IN  /\ mem' = [mem EXCEPT ![p] = Put(second, Key(p), second[Key(p)] \o newItems)]
           /\ last' = IF p = Session
                      THEN [adapter |-> "context", op |-> "pseudo",
                            before |-> GetConversation(mem[p], Key(p)),
                            um |-> um, answer |-> answer, returned |-> newItems]
                      ELSE last
    /\ sw' = IF p = Session /\ sw.phase # 1 THEN NoSwitch ELSE sw
    /\ stage' = [stage EXCEPT ![p] = "loaded"]
    /\ UNCHANGED <<file, cur, cwd, flag, err, pc, call, outstanding>>

\* a reset that empties the whole repository
ResetConversation_All(p) ==
    /\ Ready(p)
    /\ mem' = [mem EXCEPT ![p] = Put(EmptyRepo, Key(p), <<>>)]
    /\ stage' = [stage EXCEPT ![p] = "loaded"]
    /\ Forget(p)
    /\ UNCHANGED <<file, cur, cwd, flag, err, pc, call, outstanding>>

ResetConversation(p) ==
    /\ Ready(p)
    /\ mem' = [mem EXCEPT ![p] = Put(ensureConversation(mem[p], Key(p)), Key(p), <<>>)]
    /\ stage' = [stage EXCEPT ![p] = "loaded"]
    /\ Forget(p)
    /\ UNCHANGED <<file, cur, cwd, flag, err, pc, call, outstanding>>

\* how a write of the conversation file can end: written, refused with the file
\* untouched, or broken off after the file was truncated
WriteOutcomes == {"ok", "refused", "partial"}

\* the file after UpdateConversation wrote repo with outcome w
Written(repo, w) ==
    CASE w = "ok" -> FileOf(repo)
      [] w = "refused" -> file
      [] w = "partial" -> MalformedFile

\* a save that keeps the contexts of the file which the process does not hold
UpdateConversation_Merge(p, w) ==
    /\ Ready(p)
    /\ LET repo == ensureConversation(mem[p], Key(p))
           stored == Unmarshal(file.data)
           merged == [k \in (DOMAIN stored) \cup (DOMAIN repo) |->
                        IF k \in DOMAIN repo THEN repo[k] ELSE stored[k]]
       IN  /\ mem' = [mem EXCEPT ![p] = repo]
           /\ file' = Written(merged, w)
    /\ err' = [err EXCEPT ![p] = (w # "ok")]
    /\ stage' = [stage EXCEPT ![p] = IF w = "ok" THEN "saved" ELSE "loaded"]
    /\ Forget(p)
    /\ UNCHANGED <<cur, cwd, flag, pc, call, outstanding>>

UpdateConversation(p, w) ==
    /\ Ready(p)
    /\ LET repo == ensureConversation(mem[p], Key(p))
       IN  /\ mem' = [mem EXCEPT ![p] = repo]
           /\ file' = Written(repo, w)
    /\ err' = [err EXCEPT ![p] = (w # "ok")]
    /\ stage' = [stage EXCEPT ![p] = IF w = "ok" THEN "saved" ELSE "loaded"]
    /\ Forget(p)
    /\ UNCHANGED <<cur, cwd, flag, pc, call, outstanding>>

----------------------------------------------------------------------------
(* Data URIs and input files *)

\* fmt.Sprintf("data:%s;base64,%s", mimeType, encoded)
DataURI(mime, payload) == <<"data:">> \o mime \o <<";", "base64", ",">> \o payload

TrimPrefix(s, p) == IF HasPrefix(s, p) THEN SubSeq(s, Len(p) + 1, Len(s)) ELSE s

\* utils.GetPartsOfDataURI: (base64 data, mime type, error)
GetPartsOfDataURI(dataURI) ==
    LET comma == Index(dataURI, ",")
    IN  IF comma = 0
        THEN [ok |-> FALSE, data |-> <<>>, mime |-> <<>>]
        ELSE LET meta == TrimPrefix(SubSeq(dataURI, 1, comma - 1), <<"data:">>)
                 semi == Index(meta, ";")
                 mime == IF semi = 0 THEN meta ELSE SubSeq(meta, 1, semi - 1)
             IN  [ok |-> TRUE,
                  data |-> SubSeq(dataURI, comma + 1, Len(dataURI)),
                  mime |-> TrimSpace(ToLower(mime))]

\* an input file, given by the mime type content sniffing detects for its bytes
\* and by the base64 encoding of its bytes
PngFile == [mime |-> <<"image", "/", "png">>, payload |-> <<"iVBOR">>]

AiffFile == [mime |-> <<"audio", "/", "aiff">>, payload |-> <<"Rk9S">>]

\* the values of the Files option of a Chat call
FileLists == {<<>>, <<PngFile>>, <<AiffFile>>}

\* the texts of the text items of a turn, in order
TurnTexts(turn) ==
    LET texts == SelectSeq(turn.contents, LAMBDA c : c.type = "text")
    IN  [i \in 1..Len(texts) |-> texts[i].content]

----------------------------------------------------------------------------
(* Settings: src/go-gai/types/app_context.ai.go *)

\* GetSystemPrompt: the --system flag or GAI_SYSTEM_PROMPT wins over the default
GetSystemPrompt(flagPrompt, defaultPrompt) ==
    IF TrimSpace(flagPrompt) = <<>> THEN defaultPrompt ELSE TrimSpace(flagPrompt)

\* GetSystemRole with neither --system-role nor GAI_SYSTEM_ROLE set
GetSystemRole == "system"

\* a setup that adds the system turn to a conversation that already has turns
setupSystemPromptIfNeeded_Always(conversation, defaultPrompt, flagPrompt) ==
    LET systemPrompt == TrimSpace(GetSystemPrompt(flagPrompt, defaultPrompt))
    IN  IF systemPrompt # <<>>
        THEN Append(conversation, TextTurn(GetSystemRole, systemPrompt))
        ELSE conversation

\* setupSystemPromptIfNeeded of both clients
setupSystemPromptIfNeeded(conversation, defaultPrompt, flagPrompt) ==
    IF Len(conversation) = 0
    THEN LET systemPrompt == TrimSpace(GetSystemPrompt(flagPrompt, defaultPrompt))
         IN  IF systemPrompt # <<>>
             THEN Append(conversation, TextTurn(GetSystemRole, systemPrompt))
             ELSE conversation
    ELSE conversation

\* a result of a step that can fail: the value, and the failed step or "none"
Ok(v) == [err |-> "none", val |-> v]

Fail(step, v) == [err |-> step, val |-> v]

\* runs step(acc, x) over the elements of xs and stops at the first error
RECURSIVE FoldErr(_, _, _)
FoldErr(step(_, _), acc, xs) ==
    IF xs = <<>> THEN Ok(acc)
    ELSE LET r == step(acc, Head(xs))
         IN  IF r.err # "none" THEN r ELSE FoldErr(step, r.val, Tail(xs))

----------------------------------------------------------------------------
(* OpenAIClient: src/go-gai/types/openai_client.go *)

\* mime.ExtensionsByType for the types of the modelled files: the list of the
\* extensions known for the type
ExtensionsByType(mime) ==
    CASE mime = <<"application", "/", "pdf">> -> <<".pdf">>
      [] mime = <<"image", "/", "png">> -> <<".png">>
      [] mime = <<"image", "/", "jpeg">> -> <<".jpe", ".jpeg", ".jpg">>
      [] OTHER -> <<>>

\* the elements of a list of strings with one space between them
RECURSIVE JoinSpace(_)
JoinSpace(xs) ==
    IF xs = <<>> THEN <<>>
    ELSE IF Len(xs) = 1 THEN xs
    ELSE <<Head(xs), " ">> \o JoinSpace(Tail(xs))

\* what the verb %s of fmt.Sprintf prints for a []string
SprintSlice(xs) == <<"[">> \o JoinSpace(xs) \o <<"]">>

\* a translation that sends audio of any other mime type as wav
OpenAIContentBlock_AnyAudio(content, i) ==
    IF content.type = "text"
    THEN Ok([type |-> "text", text |-> content.content])
    ELSE IF content.type = "image"
    THEN Ok([type |-> "image_url", url |-> content.content])
    ELSE IF content.type = "audio"
    THEN LET parts == GetPartsOfDataURI(content.content)
             format == IF HasSuffix(parts.mime, <<"mp3">>) \/ HasSuffix(parts.mime, <<"mpeg">>)
                       THEN "mp3"
                       ELSE "wav"
         IN  IF ~parts.ok
             THEN Fail("content", <<>>)
             ELSE Ok([type |-> "input_audio", data |-> content.content, format |-> format])
    ELSE LET parts == GetPartsOfDataURI(content.content)
         IN  IF ~parts.ok
             THEN Fail("content", <<>>)
             ELSE Ok([type |-> "file", file_data |-> content.content,
                      filename |-> <<"file_", i>> \o SprintSlice(ExtensionsByType(parts.mime))])

\* one content item of a stored turn as a content block of the request
OpenAIContentBlock(content, i) ==
    IF content.type = "text"
    THEN Ok([type |-> "text", text |-> content.content])
    ELSE IF content.type = "image"
    THEN Ok([type |-> "image_url", url |-> content.content])
    ELSE IF content.type = "audio"
    THEN LET parts == GetPartsOfDataURI(content.content)
             format == IF HasSuffix(parts.mime, <<"mp3">>) \/ HasSuffix(parts.mime, <<"mpeg">>)
                       THEN "mp3"
                       ELSE IF HasSuffix(parts.mime, <<"wav">>) THEN "wav" ELSE ""
         IN  IF ~parts.ok \/ format = ""
             THEN Fail("content", <<>>)
             ELSE Ok([type |-> "input_audio", data |-> content.content, format |-> format])
    ELSE LET parts == GetPartsOfDataURI(content.content)
         IN  IF ~parts.ok
             THEN Fail("content", <<>>)
             ELSE Ok([type |-> "file", file_data |-> content.content,
                      filename |-> <<"file_", i>> \o SprintSlice(ExtensionsByType(parts.mime))])

RECURSIVE OpenAIBlocksFrom(_, _, _)
OpenAIBlocksFrom(contents, i, blocks) ==
    IF i > Len(contents) THEN Ok(blocks)
    ELSE LET r == OpenAIContentBlock(contents[i], i)
         IN  IF r.err # "none" THEN r
             ELSE OpenAIBlocksFrom(contents, i + 1, Append(blocks, r.val))

\* a translation that puts each new message in front of the others
OpenAI_appendConversationItemTo_Front(messages, item) ==
    LET r == OpenAIBlocksFrom(item.contents, 1, <<>>)
    IN  IF r.err # "none" THEN Fail(r.err, messages)
        ELSE Ok(<<[role |-> item.role, content |-> r.val]>> \o messages)

OpenAI_appendConversationItemTo(messages, item) ==
    LET r == OpenAIBlocksFrom(item.contents, 1, <<>>)
    IN  IF r.err # "none" THEN Fail(r.err, messages)
        ELSE Ok(Append(messages, [role |-> item.role, content |-> r.val]))

\* AsSupportedImageFormatString and AsSupportedAudioFormatString pass PNG and
\* audio bytes through as a data URI; every other type becomes an attachment
OpenAI_appendFile(item, f) ==
    LET type == IF HasPrefix(f.mime, <<"image", "/">>) THEN "image"
                ELSE IF HasPrefix(f.mime, <<"audio", "/">>) THEN "audio"
                ELSE "attachment"
    IN  Ok([item EXCEPT !.contents =
               Append(@, [type |-> type, content |-> DataURI(f.mime, f.payload)])])

OpenAI_appendFilesTo(item, files) == FoldErr(OpenAI_appendFile, item, files)

----------------------------------------------------------------------------
(* OllamaClient: src/unnamed/part_008 *)

Ollama_appendContent(message, content) ==
    IF content.type = "text"
    THEN Ok([message EXCEPT !.content = content.content])
    ELSE IF content.type = "image"
    THEN Ok([message EXCEPT !.images = Append(@, content.content)])
    ELSE Fail("content", message)

Ollama_appendConversationItemTo(messages, item) ==
    LET r == FoldErr(Ollama_appendContent,
                     [role |-> item.role, content |-> <<>>, images |-> <<>>],
                     item.contents)
    IN  IF r.err # "none" THEN Fail(r.err, messages)
        ELSE Ok(Append(messages, r.val))

Ollama_appendFile(item, f) ==
    IF HasPrefix(f.mime, <<"image", "/">>)
    THEN LET dataURI == DataURI(f.mime, f.payload)
             comma == Index(dataURI, ",")
         IN  Ok([item EXCEPT !.contents =
                    Append(@, [type |-> "image",
                               content |-> SubSeq(dataURI, comma + 1, Len(dataURI))])])
    ELSE Fail("content", item)

Ollama_appendFilesTo(item, files) == FoldErr(Ollama_appendFile, item, files)

----------------------------------------------------------------------------
(* Chat: inputs *)

\* the configuration of a client: c.apiKey, c.chatModel, and whether
\* GetMaxTokens and GetTemperature can parse their settings; complete, or
\* with one of the three missing
Configs ==
    {[apiKey |-> <<"sk">>, chatModel |-> <<"M">>, settingsOk |-> TRUE],
     [apiKey |-> <<" ">>, chatModel |-> <<"M">>, settingsOk |-> TRUE],
     [apiKey |-> <<"sk">>, chatModel |-> <<>>, settingsOk |-> TRUE],
     [apiKey |-> <<"sk">>, chatModel |-> <<"M">>, settingsOk |-> FALSE]}

\* the --system flag: unset or set
FlagPrompts == {<<>>, <<"FP">>}

\* the SystemPrompt option of a Chat call: unset or set
OptPrompts == {<<>>, <<"SP">>}

Msgs == {<<"hi">>}

Replies == {<<"hello">>, <<>>}

StatusCodes == {200, 201, 400}

\* the ways the HTTP exchange can end: no response at all, or a response with
\* a status code and a body that is the JSON of a reply or not JSON at all
Responses ==
    {[kind |-> "transport", status |-> 0, json |-> FALSE, reply |-> <<>>]}
    \cup {[kind |-> "http", status |-> st, json |-> FALSE, reply |-> <<>>] :
            st \in StatusCodes}
    \cup {[kind |-> "http", status |-> st, json |-> TRUE, reply |-> r] :
            st \in StatusCodes, r \in Replies}

NoResponse == [kind |-> "none", status |-> 0, json |-> FALSE, reply |-> <<>>]

\* the options of a Chat call: the no-save option and the system prompt in every
\* combination without files, and each list of files with the other two unset
ChatOptions ==
    [noSave : BOOLEAN, systemPrompt : OptPrompts, files : {<<>>}]
    \cup [noSave : {FALSE}, systemPrompt : {<<>>}, files : FileLists]

\* utils.CheckForHttpResponseError: TRUE when it returns an error
CheckForHttpResponseError(status) == status # 200

Prepared(conversation, userMessage, messages) ==
    [conversation |-> conversation, userMessage |-> userMessage, messages |-> messages]

\* the record of a Chat call: its inputs and what it has done so far
CallRecord(adapter, stored, prep, msg, opts, posts) ==
    [adapter |-> adapter, op |-> "chat", stored |-> stored, conversation |-> prep.conversation,
     userMessage |-> prep.userMessage, messages |-> prep.messages,
     msg |-> msg, noSave |-> opts.noSave, systemPrompt |-> opts.systemPrompt,
     fileBefore |-> file, posts |-> posts]

\* what Chat returned and did: ok is "err == nil", step names the step that
\* failed, answer and history are the returned values, wrote tells that the
\* call wrote the conversation file, reply is the text the backend sent
Returned(c, resp, ok, step, answer, conversation, wrote) ==
    [adapter |-> c.adapter, op |-> "chat", ok |-> ok, step |-> step, answer |-> answer,
     history |-> conversation, wrote |-> wrote, stored |-> c.stored,
     sent |-> c.conversation, userMessage |-> c.userMessage, request |-> c.messages,
     msg |-> c.msg, noSave |-> c.noSave, systemPrompt |-> c.systemPrompt,
     fileBefore |-> c.fileBefore, posts |-> c.posts, response |-> resp]

\* UpdateConversationWith sets the turns of the current context in memory
UpdateConversationWith(repo, key, conversation) ==
    Put(ensureConversation(repo, key), key, conversation)

\* Chat is called on a loaded session with room for the new turns
CanChat(conversation) ==
    /\ Ready(Session)
    /\ Len(conversation) + 2 <= MaxTurns
    /\ TotalTurnsOver(mem[Session], DOMAIN mem[Session] \ {Key(Session)})
         + Len(conversation) + 2 <= MaxTotal

\* a Chat of the OpenAI client that does not look at the API key
OpenAIPrepare_KeyUnchecked(stored, apiKey, chatModel, settingsOk, flagPrompt, msg, opts) ==
    IF TrimSpace(ToLower(chatModel)) = <<>>
    THEN Fail("config", Prepared(stored, TextTurn("user", msg), <<>>))
    ELSE LET conversation == setupSystemPromptIfNeeded(stored, opts.systemPrompt, flagPrompt)
             userMessage == OpenAI_appendFilesTo(TextTurn("user", msg), opts.files)
             messages == FoldErr(OpenAI_appendConversationItemTo, <<>>,
                                 Append(conversation, userMessage.val))
         IN  IF ~settingsOk
             THEN Fail("config", Prepared(conversation, TextTurn("user", msg), <<>>))
             ELSE IF userMessage.err # "none"
             THEN Fail(userMessage.err, Prepared(conversation, userMessage.val, <<>>))
             ELSE IF messages.err # "none"
             THEN Fail(messages.err, Prepared(conversation, userMessage.val, <<>>))
             ELSE Ok(Prepared(conversation, userMessage.val, messages.val))

\* OpenAIClient.Chat up to the request: lines 223-345
OpenAIPrepare(stored, apiKey, chatModel, settingsOk, flagPrompt, msg, opts) ==
    IF TrimSpace(apiKey) = <<>> \/ TrimSpace(ToLower(chatModel)) = <<>>
    THEN Fail("config", Prepared(stored, TextTurn("user", msg), <<>>))
    ELSE LET conversation == setupSystemPromptIfNeeded(stored, opts.systemPrompt, flagPrompt)
             userMessage == OpenAI_appendFilesTo(TextTurn("user", msg), opts.files)
             messages == FoldErr(OpenAI_appendConversationItemTo, <<>>,
                                 Append(conversation, userMessage.val))
         IN  IF ~settingsOk
             THEN Fail("config", Prepared(conversation, TextTurn("user", msg), <<>>))
             ELSE IF userMessage.err # "none"
             THEN Fail(userMessage.err, Prepared(conversation, userMessage.val, <<>>))
             ELSE IF messages.err # "none"
             THEN Fail(messages.err, Prepared(conversation, userMessage.val, <<>>))
             ELSE Ok(Prepared(conversation, userMessage.val, messages.val))

\* OllamaClient.Chat up to the request: lines 121-219
OllamaPrepare(stored, chatModel, settingsOk, flagPrompt, msg, opts) ==
    IF TrimSpace(ToLower(chatModel)) = <<>>
    THEN Fail("config", Prepared(stored, TextTurn("user", msg), <<>>))
    ELSE LET conversation == setupSystemPromptIfNeeded(stored, <<>>, flagPrompt)
             userMessage == Ollama_appendFilesTo(TextTurn("user", msg), opts.files)
             messages == FoldErr(Ollama_appendConversationItemTo, <<>>,
                                 Append(conversation, userMessage.val))
         IN  IF ~settingsOk
             THEN Fail("config", Prepared(conversation, TextTurn("user", msg), <<>>))
             ELSE IF userMessage.err # "none"
             THEN Fail(userMessage.err, Prepared(conversation, userMessage.val, <<>>))
             ELSE IF messages.err # "none"
             THEN Fail(messages.err, Prepared(conversation, userMessage.val, <<>>))
             ELSE Ok(Prepared(conversation, userMessage.val, messages.val))

\* the first half of a Chat call: it returns an error, or it sends the request
ChatSend(adapter, prep, msg, opts) ==
    LET stored == GetConversation(mem[Session], Key(Session))
    IN  /\ CanChat(prep.val.conversation)
        /\ mem' = [mem EXCEPT ![Session] = ensureConversation(@, Key(Session))]
        /\ IF prep.err # "none"
           THEN /\ last' = Returned(CallRecord(adapter, stored, prep.val, msg, opts, 0), NoResponse,
                                    FALSE, prep.err, <<>>, prep.val.conversation, FALSE)
                /\ UNCHANGED <<pc, call, outstanding>>
           ELSE /\ call' = CallRecord(adapter, stored, prep.val, msg, opts, 1)
                /\ pc' = "waiting"
                /\ outstanding' = outstanding + 1
                /\ last' = NoCall
        /\ sw' = NoSwitch
        /\ stage' = [stage EXCEPT ![Session] = "loaded"]
        /\ UNCHANGED <<file, cur, cwd, flag, err>>

OpenAIChatSend(apiKey, chatModel, settingsOk, msg, opts) ==
    ChatSend("openai",
             OpenAIPrepare(GetConversation(mem[Session], Key(Session)),
                           apiKey, chatModel, settingsOk, flag[Session], msg, opts),
             msg, opts)

OllamaChatSend(chatModel, settingsOk, msg, opts) ==
    ChatSend("ollama",
             OllamaPrepare(GetConversation(mem[Session], Key(Session)),
                           chatModel, settingsOk, flag[Session], msg, opts),
             msg, opts)

\* the step at which the response makes Chat fail, or "none"
ResponseError(resp) ==
    IF resp.kind = "transport" THEN "transport"
    ELSE IF CheckForHttpResponseError(resp.status) THEN "status"
    ELSE IF ~resp.json THEN "decode"
    ELSE "none"

\* a Chat that forgets the user turn when it updates the conversation
WithReply_NoUser(c, answer) ==
    Append(c.conversation, TextTurn("assistant", answer))

\* the conversation after the "update conversation" block of Chat
WithReply(c, answer) ==
    Append(Append(c.conversation, c.userMessage), TextTurn("assistant", answer))

\* OpenAIClient.Chat from the response on: lines 357-413
OpenAIRespond(resp, w) ==
    /\ pc' = "idle"
    /\ call' = NoCall
    /\ outstanding' = outstanding - 1
    /\ LET failed == ResponseError(resp)
           conversation == WithReply(call, resp.reply)
       IN  IF failed # "none"
           THEN /\ last' = Returned(call, resp, FALSE, failed, <<>>, call.conversation, FALSE)
                /\ UNCHANGED <<mem, file, err, stage>>
           ELSE IF call.noSave
           THEN /\ last' = Returned(call, resp, TRUE, "none", resp.reply, conversation, FALSE)
                /\ UNCHANGED <<mem, file, err, stage>>
           ELSE LET repo == UpdateConversationWith(mem[Session], Key(Session), conversation)
                IN  /\ mem' = [mem EXCEPT ![Session] = repo]
                    /\ file' = Written(repo, w)
                    /\ err' = [err EXCEPT ![Session] = (w # "ok")]
                    /\ stage' = [stage EXCEPT ![Session] = IF w = "ok" THEN "saved" ELSE "loaded"]
                    /\ last' = Returned(call, resp, w = "ok", IF w = "ok" THEN "none" ELSE "save",
                                        resp.reply, conversation, TRUE)
    /\ UNCHANGED <<cur, cwd, flag, sw>>

\* a Chat that sends the request again when the transport failed
OpenAIChatReceive_Retry(resp, w) ==
    /\ pc = "waiting" /\ call.adapter = "openai" /\ call.op = "chat"
    /\ IF resp.kind = "transport" /\ call.posts < 2
       THEN /\ call' = [call EXCEPT !.posts = @ + 1]
            /\ UNCHANGED <<file, mem, cur, cwd, flag, stage, err, pc, last, outstanding, sw>>
       ELSE OpenAIRespond(resp, w)

\* the response to the request of OpenAIClient.Chat arrives
OpenAIChatReceive(resp, w) ==
    /\ pc = "waiting" /\ call.adapter = "openai" /\ call.op = "chat"
    /\ OpenAIRespond(resp, w)

\* a Chat that stores and saves the conversation before it looks at the response
OllamaChatReceive_SaveFirst(resp, w) ==
    /\ pc = "waiting" /\ call.adapter = "ollama" /\ call.op = "chat"
    /\ pc' = "idle"
    /\ call' = NoCall
    /\ outstanding' = outstanding - 1
    /\ LET failed == ResponseError(resp)
           conversation == WithReply(call, resp.reply)
           repo == UpdateConversationWith(mem[Session], Key(Session), conversation)
       IN  /\ mem' = [mem EXCEPT ![Session] = repo]
           /\ file' = Written(repo, w)
           /\ err' = [err EXCEPT ![Session] = (w # "ok")]
           /\ stage' = [stage EXCEPT ![Session] = IF w = "ok" THEN "saved" ELSE "loaded"]
           /\ last' = IF failed # "none"
                      THEN Returned(call, resp, FALSE, failed, <<>>, call.conversation, FALSE)
                      ELSE Returned(call, resp, TRUE, "none", resp.reply, conversation, TRUE)
    /\ UNCHANGED <<cur, cwd, flag, sw>>

\* the response to the request of OllamaClient.Chat arrives: lines 230-278
OllamaChatReceive(resp, w) ==
    /\ pc = "waiting" /\ call.adapter = "ollama" /\ call.op = "chat"
    /\ pc' = "idle"
    /\ call' = NoCall
    /\ outstanding' = outstanding - 1
    /\ LET failed == ResponseError(resp)
           conversation == WithReply(call, resp.reply)
       IN  IF failed # "none"
           THEN /\ last' = Returned(call, resp, FALSE, failed, <<>>, call.conversation, FALSE)
                /\ UNCHANGED <<mem, file, err, stage>>
           ELSE LET repo == UpdateConversationWith(mem[Session], Key(Session), conversation)
                IN  /\ mem' = [mem EXCEPT ![Session] = repo]
                    /\ file' = Written(repo, w)
                    /\ err' = [err EXCEPT ![Session] = (w # "ok")]
                    /\ stage' = [stage EXCEPT ![Session] = IF w = "ok" THEN "saved" ELSE "loaded"]
                    /\ last' = Returned(call, resp, TRUE, "none", resp.reply, conversation, TRUE)
    /\ UNCHANGED <<cur, cwd, flag, sw>>

----------------------------------------------------------------------------
(* Prompt: the single-shot call of both clients *)

PromptMsgs == {<<"ask">>}

\* the options of a Prompt call: a system prompt or a list of files
PromptOptions ==
    [systemPrompt : OptPrompts, files : {<<>>}]
    \cup [systemPrompt : {<<>>}, files : FileLists]

\* the record of a Prompt call: its inputs, the request, and the repository and
\* the file as they were when it began
PromptRecord(adapter, cfg, prep, msg, opts, posts) ==
    [adapter |-> adapter, op |-> "prompt", apiKey |-> cfg.apiKey,
     chatModel |-> cfg.chatModel, request |-> prep, msg |-> msg,
     systemPrompt |-> opts.systemPrompt, files |-> opts.files,
     memBefore |-> mem[Session], fileBefore |-> file, posts |-> posts]

PromptReturned(c, resp, ok, step, answer) ==
    [adapter |-> c.adapter, op |-> "prompt", ok |-> ok, step |-> step,
     answer |-> answer, apiKey |-> c.apiKey, chatModel |-> c.chatModel,
     request |-> c.request, msg |-> c.msg, systemPrompt |-> c.systemPrompt,
     files |-> c.files, memBefore |-> c.memBefore, fileBefore |-> c.fileBefore,
     posts |-> c.posts, response |-> resp]

\* a Prompt that takes the turns of the active context into its request
OpenAIPromptPrepare_WithHistory(apiKey, chatModel, settingsOk, flagPrompt, msg, opts) ==
    IF TrimSpace(apiKey) = <<>> \/ TrimSpace(ToLower(chatModel)) = <<>>
    THEN Fail("config", <<>>)
    ELSE LET tempConversation ==
                 setupSystemPromptIfNeeded(GetConversation(mem[Session], Key(Session)),
                                           opts.systemPrompt, flagPrompt)
             userMessage == OpenAI_appendFilesTo(TextTurn("user", msg), opts.files)
             messages == FoldErr(OpenAI_appendConversationItemTo, <<>>,
                                 Append(tempConversation, userMessage.val))
         IN  IF ~settingsOk THEN Fail("config", <<>>)
             ELSE IF userMessage.err # "none" THEN Fail(userMessage.err, <<>>)
             ELSE IF messages.err # "none" THEN Fail(messages.err, <<>>)
             ELSE Ok(messages.val)

\* OpenAIClient.Prompt up to the request: the messages of the body
OpenAIPromptPrepare(apiKey, chatModel, settingsOk, flagPrompt, msg, opts) ==
    IF TrimSpace(apiKey) = <<>> \/ TrimSpace(ToLower(chatModel)) = <<>>
    THEN Fail("config", <<>>)
    ELSE LET tempConversation ==
                 setupSystemPromptIfNeeded(<<>>, opts.systemPrompt, flagPrompt)
             userMessage == OpenAI_appendFilesTo(TextTurn("user", msg), opts.files)
             messages == FoldErr(OpenAI_appendConversationItemTo, <<>>,
                                 Append(tempConversation, userMessage.val))
         IN  IF ~settingsOk THEN Fail("config", <<>>)
             ELSE IF userMessage.err # "none" THEN Fail(userMessage.err, <<>>)
             ELSE IF messages.err # "none" THEN Fail(messages.err, <<>>)
             ELSE Ok(messages.val)

\* the images of the body of OllamaClient.Prompt: the content items of the user
\* message after the first
RECURSIVE OllamaPromptImages(_, _, _)
OllamaPromptImages(contents, i, images) ==
    IF i > Len(contents) THEN Ok(images)
    ELSE IF contents[i].type = "image"
    THEN OllamaPromptImages(contents, i + 1, Append(images, contents[i].content))
    ELSE Fail("content", images)

\* OllamaClient.Prompt up to the request: the prompt and the images of the body
OllamaPromptPrepare(chatModel, settingsOk, flagPrompt, msg, opts) ==
    IF TrimSpace(ToLower(chatModel)) = <<>>
    THEN Fail("config", <<>>)
    ELSE LET tempConversation == setupSystemPromptIfNeeded(<<>>, <<>>, flagPrompt)
             userMessage == Ollama_appendFilesTo(TextTurn("user", msg), opts.files)
             messages == FoldErr(Ollama_appendConversationItemTo, <<>>,
                                 Append(tempConversation, userMessage.val))
             images == OllamaPromptImages(userMessage.val.contents, 2, <<>>)
         IN  IF ~settingsOk THEN Fail("config", <<>>)
             ELSE IF userMessage.err # "none" THEN Fail(userMessage.err, <<>>)
             ELSE IF messages.err # "none" THEN Fail(messages.err, <<>>)
             ELSE IF images.err # "none" THEN Fail(images.err, <<>>)
             ELSE Ok([prompt |-> userMessage.val.contents[1].content,
                      images |-> images.val])

\* the first half of a Prompt call: it returns an error, or it sends the request
PromptSend(adapter, cfg, prep, msg, opts) ==
    /\ pc = "idle"
    /\ IF prep.err # "none"
       THEN /\ last' = PromptReturned(PromptRecord(adapter, cfg, prep.val, msg, opts, 0),
                                      NoResponse, FALSE, prep.err, <<>>)
            /\ UNCHANGED <<pc, call, outstanding>>
       ELSE /\ call' = PromptRecord(adapter, cfg, prep.val, msg, opts, 1)
            /\ pc' = "waiting"
            /\ outstanding' = outstanding + 1
            /\ last' = NoCall
    /\ UNCHANGED <<file, mem, cur, cwd, flag, stage, err, sw>>

OpenAIPromptSend(cfg, msg, opts) ==
    PromptSend("openai", cfg,
               OpenAIPromptPrepare(cfg.apiKey, cfg.chatModel, cfg.settingsOk,
                                   flag[Session], msg, opts),
               msg, opts)

OllamaPromptSend(cfg, msg, opts) ==
    PromptSend("ollama", cfg,
               OllamaPromptPrepare(cfg.chatModel, cfg.settingsOk, flag[Session], msg, opts),
               msg, opts)

\* the response to the request of a Prompt call arrives; both clients return
\* the answer and keep nothing
PromptReceive(resp) ==
    /\ pc = "waiting" /\ call.op = "prompt"
    /\ pc' = "idle"
    /\ call' = NoCall
    /\ outstanding' = outstanding - 1
    /\ LET failed == ResponseError(resp)
       IN  last' = IF failed # "none"
                   THEN PromptReturned(call, resp, FALSE, failed, <<>>)
                   ELSE PromptReturned(call, resp, TRUE, "none", resp.reply)
    /\ UNCHANGED <<file, mem, cur, cwd, flag, stage, err, sw>>

----------------------------------------------------------------------------
(* Specifications *)

\* the items the commands append with AppendConversationItem
Items == {TextTurn("user", <<"hi">>), TextTurn("assistant", <<"OK">>)}

Idle ==
    /\ file = AbsentFile
    /\ mem = [p \in Procs |-> EmptyRepo]
    /\ cur = [p \in Procs |-> <<>>]
    /\ stage = [p \in Procs |-> "start"]
    /\ err = [p \in Procs |-> FALSE]
    /\ pc = "idle"
    /\ call = NoCall
    /\ last = NoCall
    /\ outstanding = 0
    /\ sw = NoSwitch

\* a command that chats: the session is loaded, a pseudo-conversation may be
\* appended, and Chat is called once or several times
Init ==
    /\ Idle
    /\ cwd = [p \in Procs |-> "d1"]
    /\ flag \in [Procs -> FlagPrompts]
    /\ \A p \in Procs \ {Session} : flag[p] = <<>>

Next ==
    \/ ReloadAllConversations(Session)
    \/ \E item \in Items : AppendConversationItem(Session, item)
    \/ \E cfg \in Configs, msg \in Msgs, opts \in ChatOptions :
          OpenAIChatSend(cfg.apiKey, cfg.chatModel, cfg.settingsOk, msg, opts)
    \/ \E cfg \in Configs, msg \in Msgs, opts \in ChatOptions :
          OllamaChatSend(cfg.chatModel, cfg.settingsOk, msg, opts)
    \/ \E resp \in Responses, w \in WriteOutcomes : OpenAIChatReceive(resp, w)
    \/ \E resp \in Responses, w \in WriteOutcomes : OllamaChatReceive(resp, w)

Spec == Init /\ [][Next]_vars

\* a session that works on its contexts in memory: they are switched, filled and reset
InitSession ==
    /\ Idle
    /\ cwd = [p \in Procs |-> "d1"]
    /\ flag = [p \in Procs |-> <<>>]

NextSession ==
    \/ ReloadAllConversations(Session)
    \/ \E name \in Names, restart \in BOOLEAN : SwitchContext(Session, name, restart)
    \/ \E item \in Items : AppendConversationItem(Session, item)
    \/ \E um \in PseudoMessages, answer \in PseudoAnswers :
          AppendSimplePseudoUserConversation(Session, um, answer)
    \/ ResetConversation(Session)

SpecSession == InitSession /\ [][NextSession]_vars

\* a session that chats in several contexts: between its Chat calls it starts
\* a context with a turn of its own, switches the context and resets the
\* conversation.  The calls save, with or without a system prompt in the
\* options, the backend answers with a reply or not at all, and the file can
\* be written.
ResetChatOptions == [noSave : {FALSE}, systemPrompt : OptPrompts, files : {<<>>}]

ResetConfigs == {cfg \in Configs : TrimSpace(cfg.apiKey) # <<>> /\ cfg.chatModel # <<>>
                                        /\ cfg.settingsOk}

ResetResponses ==
    {resp \in Responses : resp.kind = "transport"
                            \/ (resp.status = 200 /\ resp.json /\ resp.reply # <<>>)}

NextReset ==
    \/ ReloadAllConversations(Session)
    \/ \E name \in Names : SwitchContext(Session, name, TRUE)
    \/ /\ Len(GetConversation(mem[Session], Key(Session))) < MaxOwnTurns
       /\ AppendConversationItem(Session, TextTurn("user", <<"hi">>))
    \/ ResetConversation(Session)
    \/ \E cfg \in ResetConfigs, msg \in Msgs, opts \in ResetChatOptions :
          OpenAIChatSend(cfg.apiKey, cfg.chatModel, cfg.settingsOk, msg, opts)
    \/ \E cfg \in ResetConfigs, msg \in Msgs, opts \in ResetChatOptions :
          OllamaChatSend(cfg.chatModel, cfg.settingsOk, msg, opts)
    \/ \E resp \in ResetResponses : OpenAIChatReceive(resp, "ok")
    \/ \E resp \in ResetResponses : OllamaChatReceive(resp, "ok")

SpecReset == Init /\ [][NextReset]_vars

\* two command invocations at the same time, each with its own ChatContext and
\* its own working directory, both on the one conversation file
InitRace ==
    /\ Idle
    /\ cwd \in [Procs -> Dirs]
    /\ cwd[Session] = "d1"
    /\ flag = [p \in Procs |-> <<>>]

\* the turn process p appends: its text tells whose it is
RaceItem(p) == TextTurn("user", <<p>>)

NextRace ==
    \E p \in Procs :
        \/ ReloadAllConversations(p)
        \/ TotalTurns(mem[p]) < MaxRaceTurns /\ AppendConversationItem(p, RaceItem(p))
        \/ \E w \in WriteOutcomes : UpdateConversation(p, w)

SpecRace == InitRace /\ [][NextRace]_vars

\* a command that prompts and chats with no turns appended in between: the
\* options of its Chat calls are the defaults
DefaultChatOptions == {[noSave |-> FALSE, systemPrompt |-> <<>>, files |-> <<>>]}

NextPrompt ==
    \/ ReloadAllConversations(Session)
    \/ \E cfg \in Configs, msg \in Msgs, opts \in DefaultChatOptions :
          OpenAIChatSend(cfg.apiKey, cfg.chatModel, cfg.settingsOk, msg, opts)
    \/ \E cfg \in Configs, msg \in Msgs, opts \in DefaultChatOptions :
          OllamaChatSend(cfg.chatModel, cfg.settingsOk, msg, opts)
    \/ \E resp \in Responses, w \in WriteOutcomes : OpenAIChatReceive(resp, w)
    \/ \E resp \in Responses, w \in WriteOutcomes : OllamaChatReceive(resp, w)
    \/ \E cfg \in Configs, msg \in PromptMsgs, opts \in PromptOptions :
          OpenAIPromptSend(cfg, msg, opts)
    \/ \E cfg \in Configs, msg \in PromptMsgs, opts \in PromptOptions :
          OllamaPromptSend(cfg, msg, opts)
    \/ \E resp \in Responses : PromptReceive(resp)

SpecPrompt == Init /\ [][NextPrompt]_vars

\* a session that works on its contexts and on the conversation file: the
\* file is saved, and loaded again by a new ChatContext

\* the items the session appends
StoreItems == {TextTurn("user", <<"hi">>), TextTurn("assistant", <<"hello">>)}

\* the conversations UpdateConversationWith is called with: none, and a turn
\* with an answer that reads like a YAML null
StoreConversations ==
    {<<>>, <<TextTurn("user", <<"hi">>), TextTurn("assistant", <<"null">>)>>}

\* a call of UpdateConversationWith that removes the context
ReplaceConversation_Drop(p, conversation, noSave, w) ==
    /\ Ready(p)
    /\ mem' = [mem EXCEPT ![p] = [k \in (DOMAIN mem[p]) \ {Key(p)} |-> mem[p][k]]]
    /\ stage' = [stage EXCEPT ![p] = "loaded"]
    /\ Forget(p)
    /\ UNCHANGED <<file, cur, cwd, flag, err, pc, call, outstanding>>

\* ChatContext.UpdateConversationWith, called on its own
ReplaceConversation(p, conversation, noSave, w) ==
    /\ Ready(p)
    /\ LET repo == UpdateConversationWith(mem[p], Key(p), conversation)
       IN  /\ mem' = [mem EXCEPT ![p] = repo]
           /\ IF noSave
              THEN /\ stage' = [stage EXCEPT ![p] = "loaded"]
                   /\ UNCHANGED <<file, err>>
              ELSE /\ file' = Written(repo, w)
                   /\ err' = [err EXCEPT ![p] = (w # "ok")]
                   /\ stage' = [stage EXCEPT ![p] = IF w = "ok" THEN "saved" ELSE "loaded"]
    /\ Forget(p)
    /\ UNCHANGED <<cur, cwd, flag, pc, call, outstanding>>

\* a new ChatContext takes the place of p's and loads the file with
\* ReloadAllConversations; its current context is the empty name
Reopen(p) ==
    /\ Ready(p)
    /\ cur' = [cur EXCEPT ![p] = <<>>]
    /\ IF file.state = "malformed"
       THEN /\ err' = [err EXCEPT ![p] = TRUE]
            /\ mem' = [mem EXCEPT ![p] = EmptyRepo]
            /\ stage' = [stage EXCEPT ![p] = "start"]
       ELSE /\ err' = [err EXCEPT ![p] = FALSE]
            /\ mem' = [mem EXCEPT ![p] = Unmarshal(file.data)]
            /\ stage' = [stage EXCEPT ![p] = "reopened"]
    /\ last' = IF p = Session THEN NoCall ELSE last
    /\ sw' = IF p = Session THEN NoSwitch ELSE sw
    /\ UNCHANGED <<file, cwd, flag, pc, call, outstanding>>

NextStore ==
    \/ ReloadAllConversations(Session)
    \/ \E name \in Names : SwitchContext(Session, name, TRUE)
    \/ \E item \in StoreItems :
          TotalTurns(mem[Session]) < MaxStoreTurns /\ AppendConversationItem(Session, item)
    \/ ResetConversation(Session)
    \/ \E conversation \in StoreConversations, noSave \in BOOLEAN, w \in WriteOutcomes :
          /\ TotalTurnsOver(mem[Session], DOMAIN mem[Session] \ {Key(Session)})
               + Len(conversation) <= MaxStoreTurns
          /\ ReplaceConversation(Session, conversation, noSave, w)
    \/ \E w \in WriteOutcomes : UpdateConversation(Session, w)
    \/ Reopen(Session)

SpecStore == InitSession /\ [][NextStore]_vars

----------------------------------------------------------------------------
(* The parts of a call taken one at a time: the check of the response status,
   the translation of one stored turn, and the body of the request *)

HttpStatuses == {200, 201, 204, 301, 400, 401, 404, 500}

HttpBodies == {<<>>, <<"oops">>, <<"{", "error", "}">>}

\* utils.CheckForHttpResponseError: the error it returns and its text;
\* readable tells whether io.ReadAll of the body succeeds
HttpResponseError(status, body, readable) ==
    IF status # 200
    THEN IF status = 400 /\ readable
         THEN [failed |-> TRUE, text |-> <<"bad request 400: ">> \o body]
         ELSE [failed |-> TRUE, text |-> <<"unexpected response ", status>>]
    ELSE [failed |-> FALSE, text |-> <<>>]

\* the mime types of the audio items of stored turns
AudioMimes ==
    {<<"audio", "/", "mp3">>, <<"audio", "/", "x-", "mp3">>, <<"audio", "/", "mpeg">>,
     <<"audio", "/", "wav">>, <<"audio", "/", "x-", "wav">>, <<"audio", "/", "wave">>,
     <<"audio", "/", "ogg">>, <<"audio", "/", "aiff">>}

\* stored user turns with a second content item: audio of each mime type,
\* audio that is no data URI, an image as a data URI and as bare base64, and
\* items of other kinds with and without a data URI
StoredTurns ==
    {[role |-> "user",
      contents |-> <<TextItem(<<"hi">>),
                     [type |-> "audio", content |-> DataURI(m, <<"Rk9S">>)]>>] :
        m \in AudioMimes}
    \cup {[role |-> "user",
           contents |-> <<TextItem(<<"hi">>), [type |-> t, content |-> c]>>] :
            t \in {"audio", "image"},
            c \in {<<"Rk9S">>, DataURI(<<"image", "/", "png">>, <<"iVBOR">>)}}
    \cup {[role |-> "user",
           contents |-> <<TextItem(<<"hi">>), [type |-> t, content |-> c]>>] :
            t \in {"attachment", "video"},
            c \in {<<"JVBE">>,
                   DataURI(<<"application", "/", "pdf">>, <<"JVBE">>),
                   DataURI(<<"image", "/", "jpeg">>, <<"/9j/4">>),
                   DataURI(<<"application", "/", "octet-stream">>, <<"AAEC">>)}}

\* a pointer that is nil, and a pointer to a value
NilPtr == [nil |-> TRUE]

Ptr(v) == [nil |-> FALSE, val |-> v]

\* strconv.ParseInt of the values of GAI_MAX_TOKENS
ParseInt(s) ==
    CASE s = <<"50">> -> [ok |-> TRUE, num |-> 50]
      [] s = <<"0">> -> [ok |-> TRUE, num |-> 0]
      [] OTHER -> [ok |-> FALSE, num |-> 0]

\* AppContext.GetMaxTokens: (pointer, error)
GetMaxTokens(flagValue, envValue) ==
    LET GAI_MAX_TOKENS == TrimSpace(envValue)
        parsed == ParseInt(GAI_MAX_TOKENS)
        maxTokens == IF flagValue <= 0 /\ GAI_MAX_TOKENS # <<>> THEN parsed.num
                     ELSE flagValue
    IN  IF flagValue <= 0 /\ GAI_MAX_TOKENS # <<>> /\ ~parsed.ok
        THEN [err |-> TRUE, ptr |-> NilPtr]
        ELSE IF maxTokens > 0
        THEN [err |-> FALSE, ptr |-> Ptr(maxTokens)]
        ELSE [err |-> FALSE, ptr |-> NilPtr]

\* OpenAIClient.toResponseFormat
OpenAI_toResponseFormat(schema, schemaName) ==
    IF schema.nil THEN NilPtr
    ELSE Ptr([type |-> "json_schema",
              json_schema |-> [name |-> schemaName, schema |-> schema.val]])

\* the body map of OpenAIClient.Chat and OpenAIClient.Prompt
OpenAIBody(model, messages, temperature, maxTokens, responseFormat) ==
    [k \in {"model", "messages", "stream", "temperature",
            "max_completion_tokens", "response_format"} |->
        CASE k = "model" -> Ptr(model)
          [] k = "messages" -> Ptr(messages)
          [] k = "stream" -> Ptr(FALSE)
          [] k = "temperature" -> Ptr(temperature)
          [] k = "max_completion_tokens" -> maxTokens
          [] k = "response_format" -> responseFormat]

\* json.Marshal of a map[string]any: every key of the map is a member of the
\* object, and a nil pointer is the JSON null
JsonMarshal(body) ==
    [k \in DOMAIN body |->
        IF body[k].nil THEN [null |-> TRUE] ELSE [null |-> FALSE, value |-> body[k].val]]

\* A byte buffer is the sequence of its bytes in words of four bytes, written
\* in hexadecimal or as text; image names the format of the picture the bytes
\* hold, entries the files of the ZIP archive they hold, b64 their base64
\* encoding and pngB64 the base64 encoding of the picture encoded as PNG
Buffer(bytes, image, entries, b64, pngB64) ==
    [bytes |-> bytes, image |-> image, entries |-> entries, b64 |-> b64, pngB64 |-> pngB64]

CompoundHeader == <<"D0CF11E0", "A1B11AE1">>

ContentTypesXml == <<"[Content_Types].xml">>

Buffers ==
    {Buffer(<<"89504E47", "0D0A1A0A", "0000000D", "IHDR">>, "png", {}, "iVBOR", "iVBOR"),
     Buffer(<<"FFD8FFE0", "0010JFIF", "00010100">>, "jpeg", {}, "/9j/4", "iVBOj"),
     Buffer(<<"BM6.", "00000000", "36000000">>, "bmp", {}, "Qk02", "iVBOb"),
     Buffer(<<"GIF8", "9a01", "00010000">>, "gif", {}, "R0lG", "iVBOg"),
     Buffer(<<"RIFF", "24000000", "WEBP", "VP8 ">>, "webp", {}, "UklG", "iVBOw"),
     Buffer(<<"49492A00", "08000000", "0A000001">>, "tiff", {}, "SUkq", "iVBOt"),
     Buffer(<<"RIFF", "24000000", "WEBP", "VP8 ", "FFFFFFFF">>, "none", {}, "Ukl/", ""),
     Buffer(<<"BM6.", "FFFFFFFF", "FFFFFFFF">>, "none", {}, "Qk0/", ""),
     Buffer(<<"00000018", "ftyp", "heic">>, "heic", {}, "AAAA", "iVBOh"),
     Buffer(<<"00000018", "ftyp", "avif">>, "avif", {}, "AAAB", "iVBOa"),
     Buffer(CompoundHeader, "none", {}, "0M8R", ""),
     Buffer(CompoundHeader \o <<"00000000">>, "none", {}, "0M8S", ""),
     Buffer(CompoundHeader \o <<"00000000", "00000000", "3E000300">>, "none", {}, "0M8T", ""),
     Buffer(<<"D0CF11E0">>, "none", {}, "0M8=", ""),
     Buffer(<<"504B0304", "14000600">>, "none",
            {ContentTypesXml, <<"xl", "/", "workbook.xml">>}, "UEsX", ""),
     Buffer(<<"504B0304", "14000600", "08000000">>, "none",
            {ContentTypesXml, <<"word", "/", "document.xml">>}, "UEsW", ""),
     Buffer(<<"504B0304", "14000600", "08000000">>, "none",
            {<<"xl", "/">>, <<"a.txt">>}, "UEsZ", ""),
     Buffer(<<"hell", "o wo", "rld!">>, "none", {}, "aGVs", ""),
     Buffer(<<>>, "none", {}, "", "")}

\* bytes.Equal(b[from:to], want), with from and to counted in words
BytesEqual(b, from, to, want) ==
    Len(b) >= to /\ SubSeq(b, from + 1, to) = want

\* http.DetectContentType for the signatures of the modelled buffers
DetectContentType(b) ==
    CASE Len(b) = 0 -> <<"text", "/", "plain", ";", " ", "charset=utf-8">>
      [] BytesEqual(b, 0, 2, <<"89504E47", "0D0A1A0A">>) -> <<"image", "/", "png">>
      [] BytesEqual(b, 0, 1, <<"FFD8FFE0">>) -> <<"image", "/", "jpeg">>
      [] BytesEqual(b, 0, 2, <<"GIF8", "9a01">>) -> <<"image", "/", "gif">>
      [] BytesEqual(b, 0, 1, <<"BM6.">>) -> <<"image", "/", "bmp">>
      [] BytesEqual(b, 0, 1, <<"RIFF">>) /\ BytesEqual(b, 2, 4, <<"WEBP", "VP8 ">>)
            -> <<"image", "/", "webp">>
      [] BytesEqual(b, 0, 1, <<"504B0304">>) -> <<"application", "/", "zip">>
      [] BytesEqual(b, 0, 1, <<"hell">>) -> <<"text", "/", "plain", ";", " ", "charset=utf-8">>
      [] OTHER -> <<"application", "/", "octet-stream">>

\* utils.IsOfficeFile: (found, error)
IsOfficeFile(data, folderName) ==
    IF ~BytesEqual(data.bytes, 0, 1, <<"504B0304">>)
    THEN [found |-> FALSE, err |-> TRUE]
    ELSE [found |-> /\ ContentTypesXml \in data.entries
                    /\ \E name \in data.entries :
                          Len(name) > 2 /\ HasPrefix(name, <<folderName, "/">>),
          err |-> FALSE]

\* utils.DetectMime: twelve bytes are three words, eight bytes are two
DetectMime(data) ==
    LET b == data.bytes
    IN  IF Len(b) >= 3 /\ BytesEqual(b, 1, 2, <<"ftyp">>)
              /\ b[3] \in {"heic", "heix", "hevc", "hevx", "mif1", "msf1", "avif"}
        THEN IF b[3] \in {"heic", "heix", "hevc", "hevx"} THEN <<"image", "/", "heic">>
             ELSE IF b[3] \in {"mif1", "msf1"} THEN <<"image", "/", "heif">>
             ELSE <<"image", "/", "avif">>
        ELSE IF Len(b) < 3 /\ Len(b) >= 2 /\ BytesEqual(b, 0, 2, CompoundHeader)
        THEN <<"application", "/", "vnd.ms-excel">>
        ELSE IF IsOfficeFile(data, "xl").found
        THEN <<"application", "/", "vnd.openxmlformats-officedocument.spreadsheetml.sheet">>
        ELSE IF IsOfficeFile(data, "ppt").found
        THEN <<"application", "/", "vnd.openxmlformats-officedocument.presentationml.presentation">>
        ELSE IF IsOfficeFile(data, "word").found
        THEN <<"application", "/", "vnd.openxmlformats-officedocument.wordprocessingml.document">>
        ELSE DetectContentType(b)

\* a decoder of the image package of one format reads the picture of a buffer
\* that holds a picture of that format, and fails on every other buffer
Decode(format, data) ==
    IF data.image = format THEN [err |-> FALSE, img |-> data.pngB64]
    ELSE [err |-> TRUE, img |-> ""]

\* utils.ReadImageFromBuffer: whatever decoder it is given, it reads with webp.Decode
ReadImageFromBuffer(decode, data) == Decode("webp", data)

\* utils.ConvertImage with the PNG encoder of EnsurePNG: (base64 of the bytes, error)
ConvertImage(data) ==
    LET mimeType == DetectMime(data)
        decode == IF HasSuffix(mimeType, <<"/", "jpeg">>) \/ HasSuffix(mimeType, <<"/", "jpg">>)
                  THEN "jpeg"
                  ELSE IF HasSuffix(mimeType, <<"/", "webp">>) THEN "webp"
                  ELSE IF HasSuffix(mimeType, <<"/", "png">>) THEN "png"
                  ELSE IF HasSuffix(mimeType, <<"/", "bmp">>) THEN "bmp"
                  ELSE IF HasSuffix(mimeType, <<"/", "gif">>) THEN "gif"
                  ELSE IF HasSuffix(mimeType, <<"/", "tiff">>) THEN "tiff"
                  ELSE "nil"
    IN  IF decode # "nil"
        THEN LET r == ReadImageFromBuffer(decode, data)
             IN  IF r.err THEN [err |-> TRUE, b64 |-> data.b64]
                 ELSE [err |-> FALSE, b64 |-> r.img]
        ELSE [err |-> TRUE, b64 |-> data.b64]

\* utils.EnsurePNG
EnsurePNG(data) ==
    IF HasSuffix(DetectMime(data), <<"/", "png">>)
    THEN [err |-> FALSE, b64 |-> data.b64]
    ELSE ConvertImage(data)

\* OpenAIClient.AsSupportedImageFormatString: (data URI, error)
AsSupportedImageFormatString(data) ==
    LET mimeType == DetectMime(data)
        dataURI == DataURI(mimeType, <<data.b64>>)
    IN  IF HasPrefix(mimeType, <<"image", "/">>)
        THEN IF \/ HasSuffix(mimeType, <<"/", "jpeg">>)
                \/ HasSuffix(mimeType, <<"/", "jpg">>)
                \/ HasSuffix(mimeType, <<"/", "png">>)
             THEN [err |-> FALSE, dataURI |-> dataURI]
             ELSE LET pngData == EnsurePNG(data)
                  IN  IF ~pngData.err
                      THEN [err |-> FALSE,
                            dataURI |-> DataURI(<<"image", "/", "png">>, <<pngData.b64>>)]
                      ELSE [err |-> TRUE, dataURI |-> dataURI]
        ELSE [err |-> TRUE, dataURI |-> dataURI]

ByteInputs == [kind : {"bytes"}, data : Buffers]

\* the settings and the option the body of a request depends on
BodyInputs ==
    [kind : {"body"}, maxTokensFlag : {0, 100},
     maxTokensEnv : {<<>>, <<"0">>, <<"50">>, <<"x">>},
     schema : {NilPtr, Ptr(<<"S">>)}]

HttpInputs ==
    [kind : {"http"}, status : HttpStatuses, body : HttpBodies, readable : BOOLEAN]

TurnInputs == [kind : {"turn"}, item : StoredTurns]

\* one input is given, and nothing has been computed from it
InitParts ==
    /\ file = AbsentFile
    /\ mem = [p \in Procs |-> EmptyRepo]
    /\ cur = [p \in Procs |-> <<>>]
    /\ cwd = [p \in Procs |-> "d1"]
    /\ flag = [p \in Procs |-> <<>>]
    /\ stage = [p \in Procs |-> "start"]
    /\ err = [p \in Procs |-> FALSE]
    /\ pc = "idle"
    /\ call \in BodyInputs \cup HttpInputs \cup TurnInputs \cup ByteInputs
    /\ last = NoCall
    /\ outstanding = 0
    /\ sw = NoSwitch

\* a client checks the response to its request with CheckForHttpResponseError
CheckResponse(adapter) ==
    /\ call.kind = "http" /\ last = NoCall
    /\ last' = [adapter |-> adapter, kind |-> "http", status |-> call.status,
                body |-> call.body, readable |-> call.readable,
                error |-> HttpResponseError(call.status, call.body, call.readable)]
    /\ UNCHANGED <<file, mem, cur, cwd, flag, stage, err, pc, call, outstanding, sw>>

\* the OpenAI client translates a stored turn for a request without messages
OpenAITranslateTurn ==
    /\ call.kind = "turn" /\ last = NoCall
    /\ last' = [adapter |-> "openai", kind |-> "turn", item |-> call.item,
                result |-> OpenAI_appendConversationItemTo(<<>>, call.item)]
    /\ UNCHANGED <<file, mem, cur, cwd, flag, stage, err, pc, call, outstanding, sw>>

\* the Ollama client translates a stored turn for a request without messages
OllamaTranslateTurn ==
    /\ call.kind = "turn" /\ last = NoCall
    /\ last' = [adapter |-> "ollama", kind |-> "turn", item |-> call.item,
                result |-> Ollama_appendConversationItemTo(<<>>, call.item)]
    /\ UNCHANGED <<file, mem, cur, cwd, flag, stage, err, pc, call, outstanding, sw>>

\* the OpenAI client builds the JSON body of a request with model "M", no
\* messages and the default temperature
OpenAIBuildBody ==
    /\ call.kind = "body" /\ last = NoCall
    /\ LET maxTokens == GetMaxTokens(call.maxTokensFlag, call.maxTokensEnv)
           responseFormat == OpenAI_toResponseFormat(call.schema, <<"name">>)
       IN  last' = [adapter |-> "openai", kind |-> "body",
                    maxTokens |-> maxTokens.ptr, schema |-> call.schema,
                    failed |-> maxTokens.err,
                    json |-> IF maxTokens.err THEN JsonMarshal(<<>>)
                             ELSE JsonMarshal(OpenAIBody(<<"M">>, <<>>, <<"0.3">>,
                                                         maxTokens.ptr, responseFormat))]
    /\ UNCHANGED <<file, mem, cur, cwd, flag, stage, err, pc, call, outstanding, sw>>

\* the mime type of a buffer is detected
DetectBuffer ==
    /\ call.kind = "bytes" /\ last = NoCall
    /\ last' = [adapter |-> "utils", kind |-> "mime", data |-> call.data,
                mime |-> DetectMime(call.data)]
    /\ UNCHANGED <<file, mem, cur, cwd, flag, stage, err, pc, call, outstanding, sw>>

\* the OpenAI client turns the bytes of an attached file into an image data URI
OpenAIEnsureImage ==
    /\ call.kind = "bytes" /\ last = NoCall
    /\ last' = [adapter |-> "openai", kind |-> "image", data |-> call.data,
                result |-> AsSupportedImageFormatString(call.data)]
    /\ UNCHANGED <<file, mem, cur, cwd, flag, stage, err, pc, call, outstanding, sw>>

NextParts ==
    \/ \E adapter \in {"openai", "ollama"} : CheckResponse(adapter)
    \/ OpenAITranslateTurn
    \/ OllamaTranslateTurn
    \/ OpenAIBuildBody
    \/ DetectBuffer
    \/ OpenAIEnsureImage

SpecParts == InitParts /\ [][NextParts]_vars

----------------------------------------------------------------------------
(* Properties of Chat, checked under Spec *)

\* a Chat call has just returned
Done == last.adapter # "none"

\* the steps of the round trip at which a Chat call can fail before its reply is parsed
RoundTripSteps == {"config", "content", "transport", "status", "decode"}

\* the texts a request message carries
MessageTexts(adapter, m) ==
    IF adapter = "openai"
    THEN LET blocks == SelectSeq(m.content, LAMBDA b : b.type = "text")
         IN  [i \in 1..Len(blocks) |-> blocks[i].text]
    ELSE <<m.content>>

Carries(adapter, m, turn) ==
    m.role = turn.role /\ MessageTexts(adapter, m) = TurnTexts(turn)

\* C1: when a Chat call of either client fails at one of the steps of the round
\* trip (configuration, content translation, transport, HTTP status, decoding
\* of the body), it has not written the conversation file, and the file is what
\* it was when the call began.
C1_FailedChatKeepsFile ==
    (Done /\ ~last.ok /\ last.step \in RoundTripSteps)
        => (~last.wrote /\ file = last.fileBefore)

C1_Witness ==
    /\ Done /\ ~last.ok /\ last.step = "decode" /\ last.adapter = "ollama"
    /\ file.state = "ok" /\ TotalTurns(Unmarshal(file.data)) > 0

\* C2: a successful Chat call writes the conversation file if and only if the
\* no-save option is not set, whichever the client.
C2_NoSaveDecidesWrite ==
    (Done /\ last.ok) => (last.wrote <=> ~last.noSave)

\* C4: Chat reports success only if no step failed: the backend answered with
\* a success status and a body that could be decoded, and a write of the
\* conversation file made by the call did not fail.
C4_FailuresAreReturned ==
    (Done /\ last.ok) =>
        /\ last.response.kind = "http"
        /\ last.response.status \in 200..299
        /\ last.response.json
        /\ ~(last.wrote /\ err[Session])

\* C5: with a system prompt in the options (and no --system flag overriding
\* it), a successful Chat call puts a system turn holding exactly that prompt in
\* front if and only if the context had no turn when the call began; otherwise
\* it adds the user turn and the reply to the stored turns and nothing else.
C5_PromptInjectedIffEmpty ==
    (Done /\ last.ok /\ last.systemPrompt # <<>> /\ flag[Session] = <<>>) =>
        IF Len(last.stored) = 0
        THEN /\ Len(last.history) = 3
             /\ last.history[1] = TextTurn("system", last.systemPrompt)
        ELSE /\ Len(last.history) = Len(last.stored) + 2
             /\ SubSeq(last.history, 1, Len(last.stored)) = last.stored

\* the request of call c has, before its last message, one message for each
\* stored turn, in stored order, and at most one message in front of them; its
\* last message is the new user turn
RequestReplays(c, request) ==
    LET n == Len(request)
        k == Len(c.stored)
    IN  /\ n \in {k + 1, k + 2}
        /\ \A i \in 1..k : Carries(c.adapter, request[n - 1 - k + i], c.stored[i])
        /\ request[n].role = "user"
        /\ MessageTexts(c.adapter, request[n]) = <<c.msg>>

\* C7: every request a Chat call sends carries one message for every stored
\* turn of the active context, in stored order, followed by the message of the
\* new user turn as the last one.
C7_RequestReplaysHistory ==
    /\ pc = "waiting" => RequestReplays(call, call.messages)
    /\ (Done /\ last.posts > 0) => RequestReplays(last, last.request)

C7_Witness ==
    /\ pc = "waiting"
    /\ Len(call.stored) >= 2
    /\ call.stored[1] # call.stored[2]

\* C8: the history a successful Chat call returns is the stored turns, preceded
\* by a system turn if one was injected, followed by the new user turn and by
\* one assistant turn holding the reply text; it is one turn longer than the
\* request that was sent.
C8_ReturnedHistory ==
    (Done /\ last.ok) =>
        LET h == last.history
            n == Len(h)
            k == Len(last.stored)
        IN  /\ n \in {k + 2, k + 3}
            /\ SubSeq(h, n - 1 - k, n - 2) = last.stored
            /\ n = k + 3 => (k = 0 /\ h[1].role = "system")
            /\ Len(last.request) = n - 1
            /\ h[n - 1].role = "user" /\ TurnTexts(h[n - 1]) = <<last.msg>>
            /\ h[n] = TextTurn("assistant", last.response.reply)
            /\ last.answer = last.response.reply

C8_Witness ==
    /\ Done /\ last.ok
    /\ Len(last.stored) >= 2
    /\ last.response.reply # <<>>

\* C9 as stated: every Chat call sends exactly one POST, and at most one
\* request is outstanding.
C9_ExactlyOnePost ==
    /\ outstanding <= 1
    /\ Done => last.posts = 1

\* C9, amended: a Chat call sends at most one POST and never sends it again:
\* exactly one when it gets as far as the request, none when it fails before
\* (configuration, content translation); at most one request is outstanding at
\* any moment, also during a further Chat call of the same invocation.
C9_AtMostOnePost ==
    /\ outstanding \in {0, 1}
    /\ outstanding = 1 <=> pc = "waiting"
    /\ pc = "waiting" => call.posts = 1
    /\ Done => last.posts = IF last.step \in {"config", "content"} THEN 0 ELSE 1

\* the request of a further Chat call is outstanding: the stored turns hold the
\* reply of an earlier call made with the no-save option
C9_Witness ==
    /\ pc = "waiting" /\ outstanding = 1 /\ call.noSave
    /\ \E i \in 1..Len(call.stored) : call.stored[i] = TextTurn("assistant", <<"hello">>)

----------------------------------------------------------------------------
(* Properties of the ChatContext, checked under SpecSession and SpecRace *)

IsPrefix(s, t) == Len(s) <= Len(t) /\ SubSeq(t, 1, Len(s)) = s

\* the turns of p's current context
Active(p) == GetConversation(mem[p], Key(p))

Holds(conversation, item) == \E i \in 1..Len(conversation) : conversation[i] = item

\* C3: a save that succeeds makes the file exactly the repository the saving
\* process holds in memory, whatever another process wrote since this one
\* loaded; so two processes on the same (directory, context) pair can both save
\* without error and leave a file with the turns of only one of them.
C3_SaveOverwrites ==
    [][\A p \in Procs :
          UpdateConversation(p, "ok") =>
              /\ file' = FileOf(ensureConversation(mem[p], Key(p)))
              /\ ~err'[p]]_vars

\* both processes appended their turn under the same key and saved without
\* error, and the file holds the turn of the second only
C3_Witness ==
    /\ Key("p1") = Key("p2")
    /\ stage["p1"] = "saved" /\ stage["p2"] = "saved"
    /\ ~err["p1"] /\ ~err["p2"]
    /\ Holds(Active("p1"), RaceItem("p1"))
    /\ file.state = "ok"
    /\ Holds(Unmarshal(file.data)[Key("p2")], RaceItem("p2"))
    /\ ~Holds(Unmarshal(file.data)[Key("p1")], RaceItem("p1"))

\* C6: every AppendConversationItem step puts exactly the given item at the end
\* of the active context's turns and leaves every other context alone; and no
\* step other than a reset takes a turn away from a context or changes the
\* order of its turns: each context's former sequence is a prefix of its new one.
C6_AppendOnly ==
    [][/\ \A item \in Items :
             AppendConversationItem(Session, item) =>
                 /\ mem'[Session][Key(Session)] = Append(Active(Session), item)
                 /\ \A k \in DOMAIN mem[Session] \ {Key(Session)} :
                        mem'[Session][k] = mem[Session][k]
       /\ ~ResetConversation(Session) =>
             \A k \in DOMAIN mem[Session] :
                 /\ k \in DOMAIN mem'[Session]
                 /\ IsPrefix(mem[Session][k], mem'[Session][k])]_vars

C6_Witness ==
    /\ stage[Session] = "loaded"
    /\ Len(Active(Session)) >= 3
    /\ Active(Session)[1] # Active(Session)[2]

\* C10: after SwitchContext(a), SwitchContext(b), SwitchContext(a) the turns of
\* the active context are exactly those context a held when it was left for b.
C10_SwitchBackRestores ==
    sw.phase = 3 => Active(Session) = sw.saved

C10_Witness ==
    /\ sw.phase = 3
    /\ Len(sw.saved) >= 2
    /\ Slug(sw.a) # Slug(sw.b)
    /\ Len(mem[Session][<<cwd[Session], Slug(sw.b)>>]) >= 1

----------------------------------------------------------------------------
(* Properties of the repository and its file, checked under SpecStore *)

\* C11: when the session has just saved without error, a new ChatContext that
\* loads the file holds exactly the repository that was saved: every key with
\* its turns in their order.  So the turns "hi" of the user and "hello" of the
\* assistant, appended to an empty repository and saved, are the two turns the
\* new instance finds under the same (directory, context) key.
C11_SaveThenLoad ==
    [][(Reopen(Session) /\ stage[Session] = "saved")
          => mem'[Session] = mem[Session]]_vars

C11_Witness ==
    /\ stage[Session] = "reopened"
    /\ file.state = "ok"
    /\ \E k \in DOMAIN mem[Session] :
          /\ DOMAIN mem[Session] = {k}
          /\ mem[Session][k] =
                <<TextTurn("user", <<"hi">>), TextTurn("assistant", <<"hello">>)>>
    /\ Unmarshal(file.data) = mem[Session]

\* C12: no operation of the session on its ChatContext changes the turns of an
\* entry other than the active one, and a write of the file that succeeds
\* writes the whole repository: every entry with the turns it has in memory.
C12_OtherEntriesKept ==
    [][(~Reopen(Session) /\ ~ReloadAllConversations(Session)) =>
          /\ \A k \in (DOMAIN mem[Session]) \ {Key(Session)} :
                /\ k \in DOMAIN mem'[Session]
                /\ mem'[Session][k] = mem[Session][k]
          /\ (file' # file /\ file'.state = "ok")
                => Unmarshal(file'.data) = mem'[Session]]_vars

\* an entry that is not the active one holds turns, and the file that was just
\* written holds it with the same turns
C12_Witness ==
    /\ stage[Session] = "saved"
    /\ \E k \in (DOMAIN mem[Session]) \ {Key(Session)} :
          /\ Len(mem[Session][k]) >= 1
          /\ Unmarshal(file.data)[k] = mem[Session][k]
    /\ Len(Active(Session)) >= 1

\* C13: a key of the repository stays in it through every switch, append,
\* reset, replace and save, and after a reset the active key maps to the empty
\* turn sequence.
C13_KeysStay ==
    [][/\ (~Reopen(Session) /\ ~ReloadAllConversations(Session)) =>
             \A k \in DOMAIN mem[Session] : k \in DOMAIN mem'[Session]
       /\ ResetConversation(Session) =>
             /\ Key(Session) \in DOMAIN mem'[Session]
             /\ mem'[Session][Key(Session)] = <<>>]_vars

\* the active context was reset after it held turns, and another key is there
C13_Witness ==
    /\ stage[Session] = "loaded"
    /\ Key(Session) \in DOMAIN mem[Session]
    /\ mem[Session][Key(Session)] = <<>>
    /\ file.state = "ok"
    /\ Key(Session) \in DOMAIN Unmarshal(file.data)
    /\ Len(Unmarshal(file.data)[Key(Session)]) >= 1
    /\ \E k \in DOMAIN mem[Session] : k # Key(Session)

\* C14: SwitchContext makes the slug of the name the active context, creates
\* that context when it is missing, leaves every existing context as it is and
\* does not write the file.
C14_SwitchInMemory ==
    [][\A name \in Names :
          SwitchContext(Session, name, TRUE) =>
              /\ file' = file
              /\ cur'[Session] = Slug(name)
              /\ <<cwd[Session], Slug(name)>> \in DOMAIN mem'[Session]
              /\ \A k \in DOMAIN mem[Session] :
                    mem'[Session][k] = mem[Session][k]
              /\ \A k \in (DOMAIN mem'[Session]) \ (DOMAIN mem[Session]) :
                    mem'[Session][k] = <<>>]_vars

\* the session switched to a context that the file, written before, does not hold
C14_Witness ==
    /\ sw.phase = 1
    /\ cur[Session] = Slug(sw.a)
    /\ file.state = "ok"
    /\ Key(Session) \in DOMAIN mem[Session]
    /\ Key(Session) \notin DOMAIN Unmarshal(file.data)

----------------------------------------------------------------------------
(* Properties of Chat and Prompt together, checked under SpecPrompt *)

\* the call just made returned a configuration error and no request went out
ConfigFailure ==
    /\ last.adapter # "none"
    /\ ~last.ok
    /\ last.step = "config"
    /\ last.posts = 0
    /\ pc = "idle"
    /\ outstanding = 0

ModelMissing(cfg) == TrimSpace(cfg.chatModel) = <<>>

KeyMissing(cfg) == TrimSpace(cfg.apiKey) = <<>>

\* C15: a Chat or a Prompt of either client whose model id is missing, and a
\* Chat or a Prompt of the OpenAI client whose API key is missing, returns a
\* configuration error, and no HTTP request has been sent for it.
C15_ConfigErrorBeforeRequest ==
    [][\A cfg \in Configs :
          /\ \A msg \in Msgs, opts \in DefaultChatOptions :
                /\ (/\ ModelMissing(cfg) \/ KeyMissing(cfg)
                    /\ OpenAIChatSend(cfg.apiKey, cfg.chatModel, cfg.settingsOk, msg, opts))
                       => ConfigFailure'
                /\ (/\ ModelMissing(cfg)
                    /\ OllamaChatSend(cfg.chatModel, cfg.settingsOk, msg, opts))
                       => ConfigFailure'
          /\ \A msg \in PromptMsgs, opts \in PromptOptions :
                /\ (/\ ModelMissing(cfg) \/ KeyMissing(cfg)
                    /\ OpenAIPromptSend(cfg, msg, opts))
                       => ConfigFailure'
                /\ (/\ ModelMissing(cfg)
                    /\ OllamaPromptSend(cfg, msg, opts))
                       => ConfigFailure'
      ]_vars

\* a Prompt of the OpenAI client without an API key has returned its
\* configuration error
C15_Witness ==
    /\ ConfigFailure
    /\ last.op = "prompt"
    /\ last.adapter = "openai"
    /\ TrimSpace(last.apiKey) = <<>>
    /\ TrimSpace(last.chatModel) # <<>>

\* the request of Prompt call r is made of the inputs of the call alone: for
\* the OpenAI client a user message with the prompt text, preceded by at most
\* one system message with the configured system prompt; for the Ollama
\* client the prompt text and one image for each file
OnlyInputs(r) ==
    IF r.adapter = "openai"
    THEN LET n == Len(r.request)
         IN  /\ n \in {1, 2}
             /\ r.request[n].role = "user"
             /\ MessageTexts("openai", r.request[n]) = <<r.msg>>
             /\ Len(r.request[n].content) = 1 + Len(r.files)
             /\ n = 2 =>
                   /\ r.request[1].role = "system"
                   /\ MessageTexts("openai", r.request[1])
                         = <<TrimSpace(GetSystemPrompt(flag[Session], r.systemPrompt))>>
    ELSE /\ r.request.prompt = r.msg
         /\ Len(r.request.images) = Len(r.files)

\* C20: a Prompt call of either client, whether it succeeds or fails, leaves
\* the in-memory repository and the conversation file as they were, and the
\* request it sends holds no turn of a stored conversation.
C20_PromptIsStateless ==
    /\ (pc = "waiting" /\ call.op = "prompt") =>
          /\ mem[Session] = call.memBefore
          /\ file = call.fileBefore
          /\ OnlyInputs(call)
    /\ (Done /\ last.op = "prompt") =>
          /\ mem[Session] = last.memBefore
          /\ file = last.fileBefore
          /\ last.posts > 0 => OnlyInputs(last)

\* a Prompt has succeeded while the active context holds turns that are saved
C20_Witness ==
    /\ Done /\ last.op = "prompt" /\ last.ok
    /\ Len(GetConversation(mem[Session], Key(Session))) >= 2
    /\ file.state = "ok"

----------------------------------------------------------------------------
(* Properties of the requests of Chat, checked under Spec *)

\* a data URI without everything up to and including its first comma
AfterFirstComma(s) ==
    LET comma == Index(s, ",")
    IN  IF comma = 0 THEN s ELSE SubSeq(s, comma + 1, Len(s))

\* the image content items of a turn as bare base64, in order
BareImages(turn) ==
    LET images == SelectSeq(turn.contents, LAMBDA c : c.type = "image")
    IN  [i \in 1..Len(images) |-> AfterFirstComma(images[i].content)]

\* C17: in every request a Chat of the Ollama client sends, the images list of
\* each message holds the image content items of its turn, replayed or new, as
\* bare base64: a stored data:<mime>;base64,<payload> is sent as <payload>.
C17_ImagesBareBase64 ==
    (pc = "waiting" /\ call.op = "chat" /\ call.adapter = "ollama") =>
        LET turns == Append(call.conversation, call.userMessage)
        IN  /\ Len(call.messages) = Len(turns)
            /\ \A i \in 1..Len(turns) : call.messages[i].images = BareImages(turns[i])

----------------------------------------------------------------------------
(* Properties of the parts of a call, checked under SpecParts *)

\* sequence s occurs in sequence t
Contains(t, s) ==
    \E i \in 0..(Len(t) - Len(s)) : SubSeq(t, i + 1, i + Len(s)) = s

\* C16: a response whose status is not 2xx makes the call of either client
\* fail, and the error carries the body of the response when it can be read.
C16_ErrorCarriesBody ==
    (Done /\ last.kind = "http" /\ last.readable /\ last.status \notin 200..299) =>
        /\ last.error.failed
        /\ Contains(last.error.text, last.body)

\* the mime type of the audio item of the translated turn
AudioMime(r) == GetPartsOfDataURI(r.item.contents[2].content).mime

\* an audio item with a data URI has been translated by the OpenAI client
AudioTranslated ==
    /\ Done /\ last.kind = "turn" /\ last.adapter = "openai"
    /\ last.item.contents[2].type = "audio"
    /\ GetPartsOfDataURI(last.item.contents[2].content).ok

\* the translation succeeded and the audio block has the given format
EmittedAs(r, format) ==
    /\ r.result.err = "none"
    /\ Len(r.result.val) = 1
    /\ r.result.val[1].content[2].type = "input_audio"
    /\ r.result.val[1].content[2].format = format

\* the translation failed and no message was added
Unsupported(r) == r.result.err = "content" /\ r.result.val = <<>>

\* C18 as stated: format mp3 when the mime type ends in mp3, format wav when
\* it ends in wav, and the unsupported-audio-format error for any other type.
C18_Mp3WavOrError ==
    AudioTranslated =>
        IF HasSuffix(AudioMime(last), <<"mp3">>) THEN EmittedAs(last, "mp3")
        ELSE IF HasSuffix(AudioMime(last), <<"wav">>) THEN EmittedAs(last, "wav")
        ELSE Unsupported(last)

\* C18: the OpenAI client emits an audio item with format mp3 when the mime
\* type of its data URI ends in mp3 or in mpeg, with format wav when it ends
\* in wav, and fails with the unsupported-audio-format error for any other type.
C18_Mp3MpegWavOrError ==
    AudioTranslated =>
        IF HasSuffix(AudioMime(last), <<"mp3">>) \/ HasSuffix(AudioMime(last), <<"mpeg">>)
        THEN EmittedAs(last, "mp3")
        ELSE IF HasSuffix(AudioMime(last), <<"wav">>) THEN EmittedAs(last, "wav")
        ELSE Unsupported(last)

\* an audio/mpeg item has been emitted with format mp3
C18_Witness ==
    /\ AudioTranslated
    /\ AudioMime(last) = <<"audio", "/", "mpeg">>
    /\ EmittedAs(last, "mp3")

\* C19: the JSON body of a request of the OpenAI client has the member
\* max_completion_tokens exactly when a maximum token count is configured, and
\* the member response_format exactly when a response schema is attached.
C19_UnsetFieldsAbsent ==
    (Done /\ last.kind = "body" /\ ~last.failed) =>
        /\ "max_completion_tokens" \in DOMAIN last.json <=> ~last.maxTokens.nil
        /\ "response_format" \in DOMAIN last.json <=> ~last.schema.nil

----------------------------------------------------------------------------
(* Further properties of the repository and its file, checked under SpecStore *)

\* C21: a load of the conversation file, by the session's ChatContext or by a
\* new one, succeeds and gives the empty repository when the file does not
\* exist, and returns an error when the file exists and is malformed.
C21_LoadAbsentOrMalformed ==
    [][(ReloadAllConversations(Session) \/ Reopen(Session)) =>
          /\ file.state = "absent" =>
                /\ ~err'[Session]
                /\ mem'[Session] = EmptyRepo
                /\ stage'[Session] \in {"loaded", "reopened"}
          /\ file.state = "malformed" => err'[Session]]_vars

\* a load of a malformed file has returned its error
C21_Witness ==
    /\ file.state = "malformed"
    /\ stage[Session] = "start"
    /\ err[Session]

----------------------------------------------------------------------------
(* Properties of the content helpers, checked under SpecParts *)

\* C22: AsSupportedImageFormatString returns the data URI of the bytes as they
\* are for a JPEG or PNG buffer, and for a buffer that holds a valid BMP, GIF,
\* TIFF or WEBP picture it returns without error a data URI with the mime type
\* image/png.
C22_ImagesBecomePng ==
    (Done /\ last.kind = "image") =>
        /\ last.data.image \in {"jpeg", "png"} =>
              /\ ~last.result.err
              /\ last.result.dataURI
                    = DataURI(<<"image", "/", last.data.image>>, <<last.data.b64>>)
        /\ last.data.image \in {"bmp", "gif", "tiff", "webp"} =>
              /\ ~last.result.err
              /\ GetPartsOfDataURI(last.result.dataURI).mime = <<"image", "/", "png">>
              /\ GetPartsOfDataURI(last.result.dataURI).data = <<last.data.pngB64>>

\* C24: the OpenAI client emits a content item of a kind other than text,
\* image and audio as a file block whose filename is file_<index> followed at
\* once by one of the extensions known for the mime type of the item.
C24_AttachmentFilename ==
    (/\ Done /\ last.kind = "turn" /\ last.adapter = "openai"
     /\ last.item.contents[2].type \notin {"text", "image", "audio"}
     /\ GetPartsOfDataURI(last.item.contents[2].content).ok
     /\ ExtensionsByType(GetPartsOfDataURI(last.item.contents[2].content).mime) # <<>>) =>
        LET exts == ExtensionsByType(GetPartsOfDataURI(last.item.contents[2].content).mime)
        IN  /\ last.result.err = "none"
            /\ last.result.val[1].content[2].type = "file"
            /\ \E k \in 1..Len(exts) :
                  last.result.val[1].content[2].filename = <<"file_", 2, exts[k]>>

\* C23: DetectMime returns application/vnd.ms-excel for every buffer whose
\* first eight bytes are the compound-document header, whatever its length.
C23_CompoundHeaderIsExcel ==
    (Done /\ last.kind = "mime" /\ BytesEqual(last.data.bytes, 0, 2, CompoundHeader)) =>
        last.mime = <<"application", "/", "vnd.ms-excel">>

----------------------------------------------------------------------------
(* Further properties of the ChatContext, checked under SpecSession *)

\* C25: a call of AppendSimplePseudoUserConversation extends the active context
\* by two turns, the user message followed by the simulated answer of the
\* assistant, and returns those two turns.
C25_PseudoAppendsTwo ==
    (last.adapter = "context" /\ last.op = "pseudo") =>
        LET pair == <<TextTurn("user", last.um), TextTurn("assistant", last.answer)>>
        IN  /\ GetConversation(mem[Session], Key(Session)) = last.before \o pair
            /\ last.returned = pair

----------------------------------------------------------------------------
(* Further properties of two processes on one file, checked under SpecRace *)

\* the file holds item among the turns it has under key k
FileHolds(k, item) ==
    /\ file.state = "ok"
    /\ k \in DOMAIN Unmarshal(file.data)
    /\ Holds(Unmarshal(file.data)[k], item)

\* C26: when two processes work on different (directory, context) pairs and
\* each has appended its turn to its own context and saved without error, the
\* file holds the turn of each of them under its key.
C26_DifferentKeysKeepBoth ==
    (/\ Key("p1") # Key("p2")
     /\ \A p \in Procs :
           /\ stage[p] = "saved" /\ ~err[p]
           /\ Holds(Active(p), RaceItem(p))) =>
        \A p \in Procs : FileHolds(Key(p), RaceItem(p))

----------------------------------------------------------------------------
(* Properties of the session after Chat, checked under Spec *)

\* C27: after a Chat call that succeeded, with or without the no-save option,
\* the active context of the session ends with the new user turn followed by
\* the assistant turn that holds the reply.
C27_ExchangeKeptInMemory ==
    (Done /\ last.op = "chat" /\ last.ok) =>
        LET conversation == Active(Session)
            n == Len(conversation)
        IN  /\ n >= 2
            /\ conversation[n - 1] = last.userMessage
            /\ conversation[n] = TextTurn("assistant", last.answer)

\* C28: a request that Chat sends for a call with a system prompt in its
\* options, made on a context that already holds the turns of a
\* pseudo-conversation, has a system message that carries that prompt.
C28_PromptAfterPseudoConversation ==
    (pc = "waiting" /\ call.systemPrompt # <<>> /\ flag[Session] = <<>>
        /\ Len(call.stored) > 0) =>
        \E i \in 1..Len(call.messages) :
            Carries(call.adapter, call.messages[i],
                    TextTurn(GetSystemRole, call.systemPrompt))

----------------------------------------------------------------------------
(* Properties of the injected system turn, checked under SpecReset *)

\* the positions of the turns of a conversation that have the system role
SystemTurns(conversation) ==
    {i \in 1..Len(conversation) : conversation[i].role = GetSystemRole}

\* C29: whatever Chat calls, resets and switches of the context the session
\* has made, every context of its repository holds at most one system turn,
\* and a context that holds one has it as its first turn.
C29_OneSystemTurnInFront ==
    \A key \in DOMAIN mem[Session] :
        SystemTurns(mem[Session][key]) \subseteq {1}

\* a Chat call has just stored a system turn, the user turn and the reply in
\* a context that was empty, a second context holds turns without a system
\* turn, and a third context is empty
C29_Witness ==
    /\ Done /\ last.op = "chat" /\ last.ok /\ last.stored = <<>>
    /\ Active(Session) = <<TextTurn(GetSystemRole, <<"SP">>)>> \o
                         <<last.userMessage, TextTurn("assistant", last.answer)>>
    /\ \E key \in DOMAIN mem[Session] :
          /\ key # Key(Session)
          /\ Len(mem[Session][key]) = 2
          /\ SystemTurns(mem[Session][key]) = {}

----------------------------------------------------------------------------
(* Further properties of the response check, checked under SpecParts *)

\* C30: a response whose status is any 2xx code, 201 and 204 among them, is
\* taken for a success: the check of the response returns no error.
C30_Every2xxSucceeds ==
    (Done /\ last.kind = "http" /\ last.status \in 200..299) => ~last.error.failed

====
